---- MODULE Spec2Model ----
(***************************************************************************)
(* Model of the weave schema compiler (package weave): the scan of a       *)
(* directory of Go files, the marker and config extraction from doc        *)
(* comments, the per-field tag handling of processStruct and the mapping   *)
(* of Go type expressions to Weaviate data types.                          *)
(*                                                                         *)
(* Go strings are modelled as sequences of one-character strings, so that  *)
(* the substring tests, splits, trims and case tests of the code are       *)
(* computed on the text and not assumed.                                   *)
(***************************************************************************)
EXTENDS Integers, Sequences, FiniteSets, TLC

VARIABLES
    dir,        \* the source directory: whether it can be read, and its entries
    pc,         \* where GenerateWeaviateSchema is: "start", "files", "decls",
                \* "apply", "done"
    files,      \* processGoFiles: the paths filepath.Glob returned
    fi,         \* processGoFiles: index of the current path in files
    di,         \* processFileAST: index of the current declaration of the file
    si,         \* processFileAST: index of the current spec of the declaration
    building,   \* processFileAST: the class being built (class)
    classCfg,   \* processFileAST: the class config extracted for it (config)
    todo,       \* applyClassConfig: the keys of config the range has yet to visit
    schema,     \* schema.Classes
    results,    \* what each finished run of GenerateWeaviateSchema returned
    structArg,  \* processStruct: the struct type passed in
    structRet,  \* processStruct: what the call returned
    cgParts,    \* the parts the config comment of cgArg was written from
    cgArg,      \* extractWeaviateClassConfig: the comment group passed in
    cgRet,      \* extractWeaviateClassConfig: what the call returned
    exprArg,    \* determineWeaviateDataType: the type expression passed in
    exprRet     \* determineWeaviateDataType: what the call returned

runVars == <<dir, pc, files, fi, di, si, building, classCfg, todo, schema, results>>
structVars == <<structArg, structRet>>
configVars == <<cgParts, cgArg, cgRet>>
mapperVars == <<exprArg, exprRet>>
vars == <<runVars, structVars, configVars, mapperVars>>

----------------------------------------------------------------------------
(* Bounds of the model *)

\* nesting depth of the pointer/array wrappers of a generated type expression
MaxDepth == 2

\* number of Go files the directory can hold
MaxFiles == 2

\* number of top-level declarations in the files of the directory together
MaxDecls == 2

\* number of field declarations of a struct passed to processStruct alone
MaxFields == 2

\* number of ;-separated parts of a class config comment
MaxPairs == 2

----------------------------------------------------------------------------
(* Strings *)

UpperChars == <<"A","B","C","D","E","F","G","H","I","J","K","L","M",
                "N","O","P","Q","R","S","T","U","V","W","X","Y","Z">>
LowerChars == <<"a","b","c","d","e","f","g","h","i","j","k","l","m",
                "n","o","p","q","r","s","t","u","v","w","x","y","z">>

Range(s) == {s[i] : i \in 1..Len(s)}

\* unicode.IsUpper on the ASCII letters
IsUpper(ch) == ch \in Range(UpperChars)

\* strings.ToLower on a string of ASCII characters
ToLowerChar(ch) ==
    IF IsUpper(ch)
    THEN LowerChars[CHOOSE i \in 1..Len(UpperChars) : UpperChars[i] = ch]
    ELSE ch
ToLower(s) == [i \in 1..Len(s) |-> ToLowerChar(s[i])]

\* go/ast IsExported: the first rune of the name is an upper-case letter
IsExported(name) == Len(name) > 0 /\ IsUpper(name[1])

\* slices.Contains
SeqContains(seq, x) == \E i \in 1..Len(seq) : seq[i] = x

\* strings.Index: the position of the first occurrence of sub in s, 0 for none
Index(s, sub) ==
    LET hits == {i \in 1..(Len(s) - Len(sub) + 1) :
                    SubSeq(s, i, i + Len(sub) - 1) = sub}
    IN  IF hits = {} THEN 0 ELSE CHOOSE i \in hits : \A j \in hits : i <= j

\* strings.Contains
Contains(s, sub) == Index(s, sub) > 0

HasPrefix(s, pre) == Len(s) >= Len(pre) /\ SubSeq(s, 1, Len(pre)) = pre
HasSuffix(s, suf) ==
    Len(s) >= Len(suf) /\ SubSeq(s, Len(s) - Len(suf) + 1, Len(s)) = suf

\* strings.Split with a non-empty separator
RECURSIVE Split(_, _)
Split(s, sep) ==
    LET i == Index(s, sep)
    IN  IF i = 0 THEN <<s>>
        ELSE <<SubSeq(s, 1, i - 1)>> \o Split(SubSeq(s, i + Len(sep), Len(s)), sep)

\* strings.SplitN(s, sep, 2)
SplitN2(s, sep) ==
    LET i == Index(s, sep)
    IN  IF i = 0 THEN <<s>>
        ELSE <<SubSeq(s, 1, i - 1), SubSeq(s, i + Len(sep), Len(s))>>

\* strings.TrimSpace
SpaceChars == {" ", "\t", "\n", "\r"}
TrimSpace(s) ==
    LET keep == {i \in 1..Len(s) : s[i] \notin SpaceChars}
    IN  IF keep = {} THEN <<>>
        ELSE SubSeq(s, CHOOSE i \in keep : \A j \in keep : i <= j,
                       CHOOSE i \in keep : \A j \in keep : i >= j)

\* a Go map[string]T as a function; m[k] = v
MapSet(m, k, v) == [x \in DOMAIN m \cup {k} |-> IF x = k THEN v ELSE m[x]]
EmptyMap == <<>>
MapDelete(m, k) == [x \in DOMAIN m \ {k} |-> m[x]]

----------------------------------------------------------------------------
(* Type expressions (go/ast Expr in a field's type position) *)

Ident(name)        == [kind |-> "Ident", Name |-> name, Sub |-> <<>>]
ArrayType(elt)     == [kind |-> "ArrayType", Name |-> <<>>, Sub |-> <<elt>>]
StarExpr(x)        == [kind |-> "StarExpr", Name |-> <<>>, Sub |-> <<x>>]
SelectorExpr(x, s) == [kind |-> "SelectorExpr", Name |-> s, Sub |-> <<x>>]
Shape(k)           == [kind |-> k, Name |-> <<>>, Sub |-> <<>>]

\* the result pair ([]string, error) of the mapper
MapOk(tokens) == [err |-> FALSE, types |-> tokens]
MapErr        == [err |-> TRUE, types |-> <<>>]

IntNames   == {<<"i","n","t">>, <<"i","n","t","8">>, <<"i","n","t","1","6">>, <<"i","n","t","3","2">>, <<"i","n","t","6","4">>,
               <<"u","i","n","t">>, <<"u","i","n","t","8">>, <<"u","i","n","t","1","6">>, <<"u","i","n","t","3","2">>, <<"u","i","n","t","6","4">>}
FloatNames == {<<"f","l","o","a","t","1","6">>, <<"f","l","o","a","t","3","2">>, <<"f","l","o","a","t","6","4">>}

nativeTypes == <<<<"t","e","x","t">>, <<"b","o","o","l","e","a","n">>, <<"i","n","t">>, <<"n","u","m","b","e","r">>, <<"d","a","t","e">>, <<"u","u","i","d">>, <<"o","b","j","e","c","t">>>>

\* an Ident case that passes the Go name of the type on
identDataType_GoName(name) == MapOk(<<name>>)

\* the *ast.Ident case: the basic types, then the capitalisation heuristic
identDataType(name) ==
    IF name = <<"s","t","r","i","n","g">> THEN MapOk(<<<<"t","e","x","t">>>>)
    ELSE IF name \in IntNames THEN MapOk(<<<<"i","n","t">>>>)
    ELSE IF name \in FloatNames THEN MapOk(<<<<"n","u","m","b","e","r">>>>)
    ELSE IF name = <<"b","o","o","l">> THEN MapOk(<<<<"b","o","o","l","e","a","n">>>>)
    ELSE IF IsExported(name) THEN MapOk(<<name>>)
    ELSE MapOk(<<<<"t","e","x","t">>>>)

\* an ArrayType case that suffixes whatever the element type mapped to
arrayDataType_AlwaysSuffix(elemType) == MapOk(<<elemType[1] \o <<"[","]">>>>)

\* the *ast.ArrayType case once the element type is mapped
arrayDataType(elemType) ==
    IF Len(elemType) = 1 /\ SeqContains(nativeTypes, elemType[1])
    THEN MapOk(<<elemType[1] \o <<"[","]">>>>)
    ELSE IF Len(elemType) = 1 /\ IsExported(elemType[1])
    THEN MapOk(<<elemType[1]>>)
    ELSE MapOk(<<<<"o","b","j","e","c","t","[","]">>>>)

RECURSIVE determineWeaviateDataType(_)
determineWeaviateDataType(expr) ==
    CASE expr.kind = "Ident" ->
            identDataType(expr.Name)
      [] expr.kind = "ArrayType" ->
            LET elemType == determineWeaviateDataType(expr.Sub[1])
            IN  IF elemType.err THEN MapErr ELSE arrayDataType(elemType.types)
      [] expr.kind = "StarExpr" -> determineWeaviateDataType(expr.Sub[1])
      [] expr.kind = "SelectorExpr" ->
            LET x == expr.Sub[1]
            IN  IF x.kind = "Ident" /\ x.Name = <<"t","i","m","e">> /\ expr.Name = <<"T","i","m","e">>
                THEN MapOk(<<<<"d","a","t","e">>>>)
                ELSE IF x.kind = "Ident" /\ x.Name = <<"u","u","i","d">> /\ expr.Name = <<"U","U","I","D">>
                THEN MapOk(<<<<"u","u","i","d">>>>)
                ELSE MapOk(<<<<"t","e","x","t">>>>)
      [] expr.kind = "StructType" -> MapOk(<<<<"o","b","j","e","c","t">>>>)
      [] expr.kind = "MapType" -> MapOk(<<<<"o","b","j","e","c","t">>>>)
      [] expr.kind = "InterfaceType" -> MapOk(<<<<"t","e","x","t">>>>)
      [] OTHER -> MapErr

----------------------------------------------------------------------------
(* Struct tags *)

\* the backquote character, which a TLA+ string cannot hold
BackQuote == "BQ"

\* strconv.Unquote of a tag literal: a raw `...` literal or an interpreted
\* "..." literal without escape sequences (the parser accepts no other text
\* in a tag position, and the modelled tags hold no backslash)
Unquote(lit) ==
    LET inner == SubSeq(lit, 2, Len(lit) - 1)
        ok == /\ Len(lit) >= 2
              /\ lit[1] = lit[Len(lit)]
              /\ lit[1] \in {BackQuote, "\""}
              /\ ~SeqContains(inner, lit[1])
              /\ (lit[1] = BackQuote \/ ~SeqContains(inner, "\\"))
    IN  [err |-> ~ok, val |-> IF ok THEN inner ELSE <<>>]

\* the characters that end the key of a conventional struct tag
TagKeyStop == {" ", ":", "\"", "\t", "\n", "\r"}

RECURSIVE KeyLen(_, _)
KeyLen(tag, i) ==
    IF i < Len(tag) /\ tag[i + 1] \notin TagKeyStop THEN KeyLen(tag, i + 1) ELSE i

RECURSIVE SkipSpaces(_)
SkipSpaces(tag) ==
    IF Len(tag) > 0 /\ tag[1] = " " THEN SkipSpaces(Tail(tag)) ELSE tag

\* the index of the quote that closes the quoted value starting at q[1]
RECURSIVE CloseQuote(_, _)
CloseQuote(q, i) ==
    IF i > Len(q) THEN 0
    ELSE IF q[i] = "\"" THEN i
    ELSE IF q[i] = "\\" THEN CloseQuote(q, i + 2)
    ELSE CloseQuote(q, i + 1)

\* reflect.StructTag.Lookup
RECURSIVE TagLookup(_, _)
TagLookup(tag, key) ==
    LET t == SkipSpaces(tag)
        n == KeyLen(t, 0)
        q == SubSeq(t, n + 2, Len(t))
        c == CloseQuote(q, 2)
        none == [ok |-> FALSE, val |-> <<>>]
    IN  IF t = <<>> THEN none
        ELSE IF n = 0 \/ n + 2 > Len(t) \/ t[n + 1] # ":" \/ t[n + 2] # "\"" THEN none
        ELSE IF c = 0 THEN none
        ELSE IF SubSeq(t, 1, n) = key
             THEN LET u == Unquote(SubSeq(q, 1, c))
                  IN  IF u.err THEN none ELSE [ok |-> TRUE, val |-> u.val]
        ELSE TagLookup(SubSeq(q, c + 1, Len(q)), key)

\* reflect.StructTag.Get
TagGet(tag, key) == TagLookup(tag, key).val

weaviateTag == <<"w","e","a","v","e">>

extractJSONFieldName(tagValue) ==
    LET jsonTag == TagGet(tagValue, <<"j","s","o","n">>)
    IN  IF jsonTag = <<>> THEN <<>> ELSE Split(jsonTag, <<",">>)[1]

RECURSIVE configFromParts(_, _, _)
configFromParts(parts, i, config) ==
    IF i > Len(parts) THEN config
    ELSE LET keyVal == Split(parts[i], <<"=">>)
         IN  configFromParts(parts, i + 1,
                 IF Len(keyVal) = 2 THEN MapSet(config, keyVal[1], keyVal[2])
                 ELSE config)

extractWeaviateConfig(tagValue) ==
    LET tag == TagGet(tagValue, weaviateTag)
    IN  IF tag = <<>> THEN EmptyMap
        ELSE configFromParts(Split(tag, <<",">>), 1, EmptyMap)

----------------------------------------------------------------------------
(* processStruct *)

\* a field of a struct type (go/ast Field): its names, its type expression
\* and its tag literal; HasTag is field.Tag != nil
Field(names, type, hasTag, tag) ==
    [Names |-> names, Type |-> type, HasTag |-> hasTag, Tag |-> tag]

WeaviateProperty(name, dataType) ==
    [Name |-> name, DataType |-> dataType, Description |-> <<>>,
     Tokenization |-> <<>>, IndexFilterable |-> FALSE,
     IndexSearchable |-> FALSE, IndexInverted |-> FALSE]

\* a config map field of WeaviateClass: nil until applyClassConfig sets it
NilMap == [nil |-> TRUE, m |-> EmptyMap]

WeaviateClass(packageName, structName) ==
    [Package |-> packageName, Class |-> structName, Description |-> <<>>,
     VectorIndexType |-> <<"h","n","s","w">>, VectorIndexConfig |-> NilMap,
     Properties |-> <<>>, Vectorizer |-> <<"t","e","x","t","2","v","e","c","-","c","o","n","t","e","x","t","i","o","n","a","r","y">>,
     ModuleConfig |-> NilMap, ShardingConfig |-> NilMap,
     ReplicationConfig |-> NilMap, InvertedIndexConfig |-> NilMap]

\* what the loop body of processStruct does with one field: the field is
\* skipped (continue), fails the struct (return nil, err), or one property is
\* appended
SkipField ==
    [act |-> "skip", errKind |-> "none", fieldName |-> <<>>,
     property |-> WeaviateProperty(<<>>, <<>>)]
FailField(kind, fieldName) ==
    [act |-> "error", errKind |-> kind, fieldName |-> fieldName,
     property |-> WeaviateProperty(<<>>, <<>>)]

configText(weaviateConfig, key) ==
    IF key \in DOMAIN weaviateConfig THEN weaviateConfig[key] ELSE <<>>
configFlag(weaviateConfig, key) ==
    key \in DOMAIN weaviateConfig /\ weaviateConfig[key] = <<"t","r","u","e">>

\* "Create the property" and "Apply Weaviate-specific configurations from tags"
makeProperty(fieldName, propName, dataType, weaviateConfig) ==
    [act |-> "emit", errKind |-> "none", fieldName |-> fieldName,
     property |->
        [Name |-> propName,
         DataType |-> dataType,
         Description |-> configText(weaviateConfig, <<"d","e","s","c","r","i","p","t","i","o","n">>),
         Tokenization |-> configText(weaviateConfig, <<"t","o","k","e","n","i","z","a","t","i","o","n">>),
         IndexFilterable |-> configFlag(weaviateConfig, <<"i","n","d","e","x","F","i","l","t","e","r","a","b","l","e">>),
         IndexSearchable |-> configFlag(weaviateConfig, <<"i","n","d","e","x","S","e","a","r","c","h","a","b","l","e">>),
         IndexInverted |-> configFlag(weaviateConfig, <<"i","n","d","e","x","I","n","v","e","r","t","e","d">>)]]

\* "Determine the data type" when the tag gives none: d is what
\* determineWeaviateDataType returned for the field's type
mappedProperty(fieldName, propName, d, weaviateConfig) ==
    IF d.err THEN FailField("type", fieldName)
    ELSE makeProperty(fieldName, propName, d.types, weaviateConfig)

\* a field whose type is mapped before the tag config is looked at
namedField_MapperFirst(field, jsonName, weaviateConfig) ==
    LET fieldName == field.Names[1]
        d == determineWeaviateDataType(field.Type)
    IN  IF d.err THEN FailField("type", fieldName)
        ELSE makeProperty(fieldName, fieldName,
                          IF <<"t","y","p","e">> \in DOMAIN weaviateConfig
                          THEN <<weaviateConfig[<<"t","y","p","e">>]>> ELSE d.types,
                          MapDelete(weaviateConfig, <<"t","y","p","e">>))

\* the field from its property name on: jsonName is what
\* extractJSONFieldName returned ("" without a tag), weaviateConfig the tag
\* config (empty without a tag; a nil map reads as an empty one)
namedField(field, jsonName, weaviateConfig) ==
    LET fieldName == field.Names[1]
        propName == IF jsonName = <<>>
                    THEN ToLower(SubSeq(fieldName, 1, 1)) \o Tail(fieldName)
                    ELSE jsonName
    IN  IF <<"t","y","p","e">> \in DOMAIN weaviateConfig
        THEN makeProperty(fieldName, propName, <<weaviateConfig[<<"t","y","p","e">>]>>,
                          MapDelete(weaviateConfig, <<"t","y","p","e">>))
        ELSE mappedProperty(fieldName, propName,
                            determineWeaviateDataType(field.Type), weaviateConfig)

\* "Process field tags": unq is what strconv.Unquote returned for the tag
taggedField(field, unq, jsonName) ==
    IF unq.err THEN FailField("unquote", <<>>)
    ELSE IF jsonName = <<"-">> THEN SkipField
    ELSE namedField(field, jsonName, extractWeaviateConfig(unq.val))

unquotedField(field, unq) ==
    taggedField(field, unq, extractJSONFieldName(unq.val))

\* a loop body without the ast.IsExported test
processField_NoExportCheck(field) ==
    IF Len(field.Names) = 0 THEN SkipField
    ELSE IF field.HasTag THEN unquotedField(field, Unquote(field.Tag))
    ELSE namedField(field, <<>>, EmptyMap)

processField(field) ==
    IF Len(field.Names) = 0 THEN SkipField
    ELSE IF ~IsExported(field.Names[1]) THEN SkipField
    ELSE IF field.HasTag THEN unquotedField(field, Unquote(field.Tag))
    ELSE namedField(field, <<>>, EmptyMap)

\* the state of processStruct after the loop body ran on field i with the
\* outcome r.  origin records, for each appended property, the field
\* declaration and the field name it was built from, and errDecl the field
\* declaration the loop failed on (history only: the code keeps neither)
afterField(acc, i, r) ==
    CASE r.act = "skip" -> acc
      [] r.act = "error" ->
            [acc EXCEPT !.err = TRUE, !.errKind = r.errKind,
                        !.errField = r.fieldName, !.errDecl = i,
                        !.class = WeaviateClass(<<>>, <<>>),
                        !.origin = <<>>]
      [] OTHER ->
            [acc EXCEPT !.class.Properties = Append(@, r.property),
                        !.origin = Append(@, [decl |-> i, name |-> r.fieldName])]

\* the loop of processStruct from field i on
RECURSIVE processFields(_, _, _)
processFields(fields, i, acc) ==
    IF i > Len(fields) \/ acc.err THEN acc
    ELSE processFields(fields, i + 1, afterField(acc, i, processField(fields[i])))

\* processStruct returns (*WeaviateClass, error); on an error the class is nil
\* (here: the zero class) and errField is the field name the message carries
processStruct(packageName, structName, structType) ==
    processFields(structType.Fields, 1,
        [err |-> FALSE, errKind |-> "none", errField |-> <<>>, errDecl |-> 0,
         class |-> WeaviateClass(packageName, structName), origin |-> <<>>])

----------------------------------------------------------------------------
(* Class-level markers and the class config *)

\* Comment markers
weaviateMarker       == <<"+">> \o weaviateTag
weaviateDescMarker   == <<"+">> \o weaviateTag \o <<":","d","e","s","c",":">>
weaviateConfigMarker == <<"+">> \o weaviateTag \o <<":","c","o","n","f","i","g",":">>

\* A comment group (ast.CommentGroup) is the sequence of the texts of its
\* comments, the leading // included; a nil group is the empty sequence.

\* a marker test that reads the first comment of the group only
hasWeaviateMarker_FirstLine(cg) ==
    Len(cg) > 0 /\ Contains(cg[1], weaviateMarker)

\* a marker test that wants the marker not to run on into :desc: or :config:
hasWeaviateMarker_BareOnly(cg) ==
    \E i \in 1..Len(cg) :
        /\ Contains(cg[i], weaviateMarker)
        /\ ~Contains(cg[i], weaviateMarker \o <<":">>)

hasWeaviateMarker(cg) ==
    \E i \in 1..Len(cg) : Contains(cg[i], weaviateMarker)

RECURSIVE descriptionFrom(_, _)
descriptionFrom(cg, i) ==
    IF i > Len(cg) THEN <<>>
    ELSE IF Contains(cg[i], weaviateDescMarker)
         THEN TrimSpace(SplitN2(cg[i], weaviateDescMarker)[2])
    ELSE descriptionFrom(cg, i + 1)

extractWeaviateDescription(cg) == descriptionFrom(cg, 1)

\* The values a class config holds (Go interface{}): a bool, a float64, a
\* string, a JSON object or JSON null, as one record shape with a type tag
\* t; the field of the tag holds the value and the others their zero.
ZeroNum    == [neg |-> FALSE, int |-> 0, frac |-> <<>>]
ZeroVal    == [t |-> "nil", b |-> FALSE, n |-> ZeroNum, s |-> <<>>, m |-> EmptyMap]
BoolVal(b) == [ZeroVal EXCEPT !.t = "bool", !.b = b]
NumVal(n)  == [ZeroVal EXCEPT !.t = "float64", !.n = n]
StrVal(s)  == [ZeroVal EXCEPT !.t = "string", !.s = s]
ObjVal(m)  == [ZeroVal EXCEPT !.t = "map", !.m = m]

\* strconv.ParseBool
ParseBool(s) ==
    IF s \in {<<"1">>, <<"t">>, <<"T">>, <<"T","R","U","E">>, <<"t","r","u","e">>, <<"T","r","u","e">>}
    THEN [err |-> FALSE, val |-> TRUE]
    ELSE IF s \in {<<"0">>, <<"f">>, <<"F">>, <<"F","A","L","S","E">>, <<"f","a","l","s","e">>, <<"F","a","l","s","e">>}
    THEN [err |-> FALSE, val |-> FALSE]
    ELSE [err |-> TRUE, val |-> FALSE]

DigitChars == <<"0","1","2","3","4","5","6","7","8","9">>
IsDigit(ch) == SeqContains(DigitChars, ch)
DigitVal(ch) == (CHOOSE i \in 1..Len(DigitChars) : DigitChars[i] = ch) - 1
AllDigits(s) == \A i \in 1..Len(s) : IsDigit(s[i])

RECURSIVE NatValue(_)
NatValue(s) ==
    IF s = <<>> THEN 0
    ELSE 10 * NatValue(SubSeq(s, 1, Len(s) - 1)) + DigitVal(s[Len(s)])

RECURSIVE DropTrailingZeros(_)
DropTrailingZeros(s) ==
    IF Len(s) > 0 /\ s[Len(s)] = "0"
    THEN DropTrailingZeros(SubSeq(s, 1, Len(s) - 1)) ELSE s

\* strconv.ParseFloat(s, 64) on the decimal literals without an exponent:
\* an optional sign, digits, an optional point and digits (at least one
\* digit).  The exponent, hexadecimal, infinity and NaN forms that
\* ParseFloat also accepts are not modelled; no modelled text has them.
ParseFloat(s) ==
    LET signed == Len(s) > 0 /\ s[1] \in {"+", "-"}
        body == IF signed THEN Tail(s) ELSE s
        parts == Split(body, <<".">>)
        intPart == parts[1]
        fracPart == IF Len(parts) = 2 THEN parts[2] ELSE <<>>
        ok == /\ Len(parts) <= 2
              /\ AllDigits(intPart) /\ AllDigits(fracPart)
              /\ Len(intPart) + Len(fracPart) > 0
    IN  [err |-> ~ok,
         val |-> IF ok THEN [neg |-> signed /\ s[1] = "-",
                             int |-> NatValue(intPart),
                             frac |-> DropTrailingZeros(fracPart)]
                 ELSE ZeroNum]

\* encoding/json on the objects whose members are "key":value with a value
\* that is a string without escapes, a decimal number, true, false, null or
\* such an object again, written without white space.  next is the position
\* after the value read.
JsonFail == [ok |-> FALSE, val |-> ZeroVal, next |-> 0]

jsonString(s, i) ==
    LET rest == SubSeq(s, i + 1, Len(s))
        c == Index(rest, <<"\"">>)
    IN  IF i > Len(s) \/ s[i] # "\"" \/ c = 0 THEN JsonFail
        ELSE IF SeqContains(SubSeq(rest, 1, c - 1), "\\") THEN JsonFail
        ELSE [ok |-> TRUE, val |-> StrVal(SubSeq(rest, 1, c - 1)), next |-> i + c + 1]

RECURSIVE NumEnd(_, _)
NumEnd(s, i) ==
    IF i <= Len(s) /\ (IsDigit(s[i]) \/ s[i] \in {"-", "+", "."})
    THEN NumEnd(s, i + 1) ELSE i

jsonNumber(s, i) ==
    LET e == NumEnd(s, i)
        lit == SubSeq(s, i, e - 1)
        body == IF Len(lit) > 0 /\ lit[1] = "-" THEN Tail(lit) ELSE lit
        parts == Split(body, <<".">>)
        f == ParseFloat(lit)
        ok == /\ ~f.err
              /\ Len(body) > 0 /\ IsDigit(body[1]) /\ IsDigit(body[Len(body)])
              /\ (Len(parts[1]) = 1 \/ parts[1][1] # "0")
    IN  IF ok THEN [ok |-> TRUE, val |-> NumVal(f.val), next |-> e] ELSE JsonFail

\* one value at position i (what = "value"), or the members of an object
\* from position i on up to its closing brace (what = "members", m the
\* members read so far)
RECURSIVE jsonParse(_, _, _, _)
jsonParse(what, s, i, m) ==
    LET at(w) == i + Len(w) - 1 <= Len(s) /\ SubSeq(s, i, i + Len(w) - 1) = w
        k == jsonString(s, i)
        v == jsonParse("value", s, k.next + 1, EmptyMap)
        m2 == MapSet(m, k.val.s, v.val)
    IN  IF what = "value"
        THEN IF i > Len(s) THEN JsonFail
             ELSE IF s[i] = "\"" THEN jsonString(s, i)
             ELSE IF s[i] = "{"
                  THEN IF i < Len(s) /\ s[i + 1] = "}"
                       THEN [ok |-> TRUE, val |-> ObjVal(EmptyMap), next |-> i + 2]
                       ELSE jsonParse("members", s, i + 1, EmptyMap)
             ELSE IF at(<<"t","r","u","e">>)
                  THEN [ok |-> TRUE, val |-> BoolVal(TRUE), next |-> i + 4]
             ELSE IF at(<<"f","a","l","s","e">>)
                  THEN [ok |-> TRUE, val |-> BoolVal(FALSE), next |-> i + 5]
             ELSE IF at(<<"n","u","l","l">>)
                  THEN [ok |-> TRUE, val |-> ZeroVal, next |-> i + 4]
             ELSE jsonNumber(s, i)
        ELSE IF ~k.ok \/ k.next > Len(s) \/ s[k.next] # ":" THEN JsonFail
             ELSE IF ~v.ok \/ v.next > Len(s) THEN JsonFail
             ELSE IF s[v.next] = "}"
                  THEN [ok |-> TRUE, val |-> ObjVal(m2), next |-> v.next + 1]
             ELSE IF s[v.next] = "," THEN jsonParse("members", s, v.next + 1, m2)
             ELSE JsonFail

\* json.Unmarshal([]byte(value), &jsonVal) with jsonVal a map[string]interface{}
Unmarshal(value) ==
    LET r == jsonParse("value", value, 1, EmptyMap)
    IN  IF r.ok /\ r.next = Len(value) + 1 /\ r.val.t = "map"
        THEN [err |-> FALSE, val |-> r.val.m]
        ELSE [err |-> TRUE, val |-> EmptyMap]

\* a coercion that tries the float before the boolean
firstCoercion_FloatFirst(value, asBool, asFloat, asJSON) ==
    IF ~asFloat.err THEN NumVal(asFloat.val)
    ELSE IF ~asBool.err THEN BoolVal(asBool.val)
    ELSE IF HasPrefix(value, <<"{">>) /\ HasSuffix(value, <<"}">>) /\ ~asJSON.err
         THEN ObjVal(asJSON.val)
    ELSE StrVal(value)

\* "Try to convert value to appropriate type": the value stored for a pair
firstCoercion(value, asBool, asFloat, asJSON) ==
    IF ~asBool.err THEN BoolVal(asBool.val)
    ELSE IF ~asFloat.err THEN NumVal(asFloat.val)
    ELSE IF HasPrefix(value, <<"{">>) /\ HasSuffix(value, <<"}">>)
         THEN IF ~asJSON.err THEN ObjVal(asJSON.val) ELSE StrVal(value)
    ELSE StrVal(value)

coerceValue(value) ==
    firstCoercion(value, ParseBool(value), ParseFloat(value), Unmarshal(value))

\* the loop over the ;-separated parts of one config comment
RECURSIVE configFromPairs(_, _, _)
configFromPairs(configParts, i, config) ==
    IF i > Len(configParts) THEN config
    ELSE LET part == configParts[i]
             keyVal == SplitN2(part, <<"=">>)
         IN  configFromPairs(configParts, i + 1,
                 IF part # <<>> /\ Len(keyVal) = 2
                 THEN MapSet(config, TrimSpace(keyVal[1]),
                             coerceValue(TrimSpace(keyVal[2])))
                 ELSE config)

\* the loop over the comments of the group
RECURSIVE configFromComments(_, _, _)
configFromComments(cg, i, config) ==
    IF i > Len(cg) THEN config
    ELSE configFromComments(cg, i + 1,
            IF Contains(cg[i], weaviateConfigMarker)
            THEN configFromPairs(
                    Split(TrimSpace(SplitN2(cg[i], weaviateConfigMarker)[2]), <<";">>),
                    1, config)
            ELSE config)

extractWeaviateClassConfig(cg) == configFromComments(cg, 1, EmptyMap)

\* a switch whose vectorizer case writes the field of the vectorIndexType case
applyConfigKey_SharedField(class, key, value) ==
    CASE key \in {<<"v","e","c","t","o","r","I","n","d","e","x","T","y","p","e">>, <<"v","e","c","t","o","r","i","z","e","r">>} /\ value.t = "string" ->
            [class EXCEPT !.VectorIndexType = value.s]
      [] OTHER -> class

\* the switch of applyClassConfig for one key of the config
applyConfigKey(class, key, value) ==
    CASE key = <<"v","e","c","t","o","r","I","n","d","e","x","T","y","p","e">> /\ value.t = "string" ->
            [class EXCEPT !.VectorIndexType = value.s]
      [] key = <<"v","e","c","t","o","r","i","z","e","r">> /\ value.t = "string" ->
            [class EXCEPT !.Vectorizer = value.s]
      [] key = <<"v","e","c","t","o","r","I","n","d","e","x","C","o","n","f","i","g">> /\ value.t = "map" ->
            [class EXCEPT !.VectorIndexConfig = [nil |-> FALSE, m |-> value.m]]
      [] key = <<"m","o","d","u","l","e","C","o","n","f","i","g">> /\ value.t = "map" ->
            [class EXCEPT !.ModuleConfig = [nil |-> FALSE, m |-> value.m]]
      [] key = <<"s","h","a","r","d","i","n","g","C","o","n","f","i","g">> /\ value.t = "map" ->
            [class EXCEPT !.ShardingConfig = [nil |-> FALSE, m |-> value.m]]
      [] key = <<"r","e","p","l","i","c","a","t","i","o","n","C","o","n","f","i","g">> /\ value.t = "map" ->
            [class EXCEPT !.ReplicationConfig = [nil |-> FALSE, m |-> value.m]]
      [] key = <<"i","n","v","e","r","t","e","d","I","n","d","e","x","C","o","n","f","i","g">> /\ value.t = "map" ->
            [class EXCEPT !.InvertedIndexConfig = [nil |-> FALSE, m |-> value.m]]
      [] OTHER -> class

----------------------------------------------------------------------------
(* The scan of the directory *)

\* byte order of the characters of the modelled paths
AsciiOrder == <<".">> \o DigitChars \o UpperChars \o <<"_">> \o LowerChars
Ord(ch) == CHOOSE i \in 1..Len(AsciiOrder) : AsciiOrder[i] = ch

\* a < b as Go strings
RECURSIVE StrLess(_, _)
StrLess(a, b) ==
    IF b = <<>> THEN FALSE
    ELSE IF a = <<>> THEN TRUE
    ELSE IF a[1] = b[1] THEN StrLess(Tail(a), Tail(b))
    ELSE Ord(a[1]) < Ord(b[1])

\* sort.Strings on a set of distinct names
RECURSIVE SortStrings(_)
SortStrings(names) ==
    IF names = {} THEN <<>>
    ELSE LET least == CHOOSE n \in names : \A o \in names \ {n} : StrLess(n, o)
         IN  <<least>> \o SortStrings(names \ {least})

\* filepath.Glob(filepath.Join(dir, "*.go")).  Glob reports ErrBadPattern
\* for a malformed pattern and nothing else: a directory it cannot read
\* gives no match and no error.  The matches of one directory come back
\* sorted.  A path is modelled by the entry's name.
Glob(d) ==
    IF d.status = "badpattern" THEN [err |-> TRUE, files |-> <<>>]
    ELSE IF d.status = "unreadable" THEN [err |-> FALSE, files |-> <<>>]
    ELSE [err |-> FALSE,
          files |-> SortStrings({n \in DOMAIN d.entries : HasSuffix(n, <<".","g","o">>)})]

\* what a run returns: (*WeaviateSchemaDefinition, error).  errPath,
\* errStruct and errField are the path, struct name and field name the
\* error message carries.
NoError == [err |-> FALSE, errKind |-> "none", errPath |-> <<>>,
            errStruct |-> <<>>, errField |-> <<>>]
Success(classes) == [error |-> NoError, nil |-> FALSE, Classes |-> classes]
Failure(kind, path, struct, field) ==
    [error |-> [err |-> TRUE, errKind |-> kind, errPath |-> path,
                errStruct |-> struct, errField |-> field],
     nil |-> TRUE, Classes |-> <<>>]

NoClass == WeaviateClass(<<>>, <<>>)

curFile == dir.entries[files[fi]]
curDecl == curFile.Decls[di]
curSpec == curDecl.Specs[si]

\* processGoFiles: the Glob call
GlobFiles ==
    /\ pc = "start"
    /\ ~Glob(dir).err
    /\ files' = Glob(dir).files
    /\ fi' = 1
    /\ pc' = "files"
    /\ UNCHANGED <<dir, di, si, building, classCfg, todo, schema, results>>

GlobFails ==
    /\ pc = "start"
    /\ Glob(dir).err
    /\ results' = Append(results, Failure("glob", dir.path, <<>>, <<>>))
    /\ pc' = "done"
    /\ UNCHANGED <<dir, files, fi, di, si, building, classCfg, todo, schema>>

\* parser.ParseFile on the next path
ParseFile ==
    /\ pc = "files"
    /\ fi <= Len(files)
    /\ curFile.parses
    /\ di' = 1
    /\ si' = 1
    /\ pc' = "decls"
    /\ UNCHANGED <<dir, files, fi, building, classCfg, todo, schema, results>>

ParseFileFails ==
    /\ pc = "files"
    /\ fi <= Len(files)
    /\ ~curFile.parses
    /\ results' = Append(results, Failure("parse", files[fi], <<>>, <<>>))
    /\ pc' = "done"
    /\ UNCHANGED <<dir, files, fi, di, si, building, classCfg, todo, schema>>

\* processFileAST: a declaration that is no type declaration
SkipDecl ==
    /\ pc = "decls"
    /\ di <= Len(curFile.Decls)
    /\ curDecl.Tok # "type"
    /\ di' = di + 1
    /\ si' = 1
    /\ UNCHANGED <<dir, pc, files, fi, building, classCfg, todo, schema, results>>

\* processFileAST: the specs of the declaration are exhausted
NextDecl ==
    /\ pc = "decls"
    /\ di <= Len(curFile.Decls)
    /\ curDecl.Tok = "type"
    /\ si > Len(curDecl.Specs)
    /\ di' = di + 1
    /\ si' = 1
    /\ UNCHANGED <<dir, pc, files, fi, building, classCfg, todo, schema, results>>

includeInWeaviate(genDecl, typeSpec) ==
    IF hasWeaviateMarker(genDecl.Doc) THEN TRUE
    ELSE hasWeaviateMarker(typeSpec.Doc)

\* processFileAST: a spec that is no struct type, or bears no marker
SkipTypeSpec ==
    /\ pc = "decls"
    /\ di <= Len(curFile.Decls)
    /\ curDecl.Tok = "type"
    /\ si <= Len(curDecl.Specs)
    /\ ~curSpec.IsStruct \/ ~includeInWeaviate(curDecl, curSpec)
    /\ si' = si + 1
    /\ UNCHANGED <<dir, pc, files, fi, di, building, classCfg, todo, schema, results>>

\* the first of the two lookup sites that yields something
firstNonEmpty(fromGroup, fromSpec) ==
    IF DOMAIN fromGroup # {} THEN fromGroup ELSE fromSpec

classDescription(genDecl, typeSpec) ==
    firstNonEmpty(extractWeaviateDescription(genDecl.Doc),
                  extractWeaviateDescription(typeSpec.Doc))

classConfig(genDecl, typeSpec) ==
    firstNonEmpty(extractWeaviateClassConfig(genDecl.Doc),
                  extractWeaviateClassConfig(typeSpec.Doc))

builtStruct == processStruct(curFile.Name, curSpec.Name, curSpec.Type)

\* processFileAST: a marked struct whose processStruct succeeds; the class
\* gets its description and applyClassConfig starts its range over config
BuildClass ==
    /\ pc = "decls"
    /\ di <= Len(curFile.Decls)
    /\ curDecl.Tok = "type"
    /\ si <= Len(curDecl.Specs)
    /\ curSpec.IsStruct /\ includeInWeaviate(curDecl, curSpec)
    /\ LET built == builtStruct
           description == classDescription(curDecl, curSpec)
       IN  /\ ~built.err
           /\ building' = IF description # <<>>
                           THEN [built.class EXCEPT !.Description = description]
                           ELSE built.class
    /\ classCfg' = classConfig(curDecl, curSpec)
    /\ todo' = DOMAIN classCfg'
    /\ pc' = "apply"
    /\ UNCHANGED <<dir, files, fi, di, si, schema, results>>

\* processFileAST: processStruct fails, and the run with it
BuildClassFails ==
    /\ pc = "decls"
    /\ di <= Len(curFile.Decls)
    /\ curDecl.Tok = "type"
    /\ si <= Len(curDecl.Specs)
    /\ curSpec.IsStruct /\ includeInWeaviate(curDecl, curSpec)
    /\ LET built == builtStruct
       IN  /\ built.err
           /\ results' = Append(results,
                   Failure(built.errKind, <<>>, curSpec.Name, built.errField))
    /\ pc' = "done"
    /\ UNCHANGED <<dir, files, fi, di, si, building, classCfg, todo, schema>>

\* applyClassConfig: one iteration of the range over the config map, which
\* visits the keys in an order Go leaves unspecified
ApplyClassConfig ==
    /\ pc = "apply"
    /\ \E key \in todo :
        /\ building' = applyConfigKey(building, key, classCfg[key])
        /\ todo' = todo \ {key}
    /\ UNCHANGED <<dir, pc, files, fi, di, si, classCfg, schema, results>>

\* processFileAST: schema.Classes = append(schema.Classes, *class)
AppendClass ==
    /\ pc = "apply"
    /\ todo = {}
    /\ schema' = Append(schema, building)
    /\ building' = NoClass
    /\ classCfg' = EmptyMap
    /\ si' = si + 1
    /\ pc' = "decls"
    /\ UNCHANGED <<dir, files, fi, di, todo, results>>

\* processFileAST returns nil: on to the next path
NextFile ==
    /\ pc = "decls"
    /\ di > Len(curFile.Decls)
    /\ fi' = fi + 1
    /\ pc' = "files"
    /\ UNCHANGED <<dir, files, di, si, building, classCfg, todo, schema, results>>

\* processGoFiles returns nil and GenerateWeaviateSchema the schema
ReturnSchema ==
    /\ pc = "files"
    /\ fi > Len(files)
    /\ results' = Append(results, Success(schema))
    /\ pc' = "done"
    /\ UNCHANGED <<dir, files, fi, di, si, building, classCfg, todo, schema>>

\* GenerateWeaviateSchema is called again on the same directory
RunAgain ==
    /\ pc = "done"
    /\ Len(results) < 2
    /\ pc' = "start"
    /\ files' = <<>>
    /\ fi' = 1
    /\ di' = 1
    /\ si' = 1
    /\ building' = NoClass
    /\ classCfg' = EmptyMap
    /\ todo' = {}
    /\ schema' = <<>>
    /\ UNCHANGED <<dir, results>>

----------------------------------------------------------------------------
(* The directories a run is checked on *)

TypeSpec(name, doc, isStruct, fields) ==
    [Name |-> name, Doc |-> doc, IsStruct |-> isStruct,
     Type |-> [Fields |-> fields]]
GenDecl(tok, doc, specs) == [Tok |-> tok, Doc |-> doc, Specs |-> specs]

NoTag(names, type) == Field(names, type, FALSE, <<>>)

\* // Plain is internal
\* type Plain struct { Hook func() }
DeclPlain ==
    GenDecl("type", <<<<"/","/"," ","P","l","a","i","n"," ","i","s"," ","i","n","t","e","r","n","a","l">>>>,
        <<TypeSpec(<<"P","l","a","i","n">>, <<>>, TRUE,
            <<NoTag(<<<<"H","o","o","k">>>>, Shape("FuncType"))>>)>>)

\* // Stored types
\* // +weave
\* // +weave:desc: News
\* type (
\*     Article struct { Title string; Tags []string `weave:"tags,indexSearchable=true"` }
\*     Comment struct { Body string }
\* )
DeclArticle ==
    GenDecl("type", <<<<"/","/"," ","S","t","o","r","e","d"," ","t","y","p","e","s">>, <<"/","/"," ","+","w","e","a","v","e">>, <<"/","/"," ","+","w","e","a","v","e",":","d","e","s","c",":"," ","N","e","w","s">>>>,
        <<TypeSpec(<<"A","r","t","i","c","l","e">>, <<>>, TRUE,
            <<NoTag(<<<<"T","i","t","l","e">>>>, Ident(<<"s","t","r","i","n","g">>)),
              Field(<<<<"T","a","g","s">>>>, ArrayType(Ident(<<"s","t","r","i","n","g">>)), TRUE,
                    <<BackQuote,"w","e","a","v","e",":","\"","t","a","g","s",",","i","n","d","e","x","S","e","a","r","c","h","a","b","l","e","=","t","r","u","e","\"",BackQuote>>)>>),
          TypeSpec(<<"C","o","m","m","e","n","t">>, <<>>, TRUE,
            <<NoTag(<<<<"B","o","d","y">>>>, Ident(<<"s","t","r","i","n","g">>))>>)>>)

\* type (
\*     // Author writes
\*     // +weave
\*     // +weave:config: vectorizer=none;vectorIndexType=flat;vectorIndexConfig={"ef":8}
\*     Author struct { Name string }
\*     // Draft is unsaved
\*     Draft struct { Title string }
\*     // +weave
\*     ID string
\* )
DeclGroup ==
    GenDecl("type", <<>>,
        <<TypeSpec(<<"A","u","t","h","o","r">>,
            <<<<"/","/"," ","A","u","t","h","o","r"," ","w","r","i","t","e","s">>, <<"/","/"," ","+","w","e","a","v","e">>,
              <<"/","/"," ","+","w","e","a","v","e",":","c","o","n","f","i","g",":"," ","v","e","c","t","o","r","i","z","e","r","=","n","o","n","e",";","v","e","c","t","o","r","I","n","d","e","x","T","y","p","e","=","f","l","a","t",";","v","e","c","t","o","r","I","n","d","e","x","C","o","n","f","i","g","=","{","\"","e","f","\"",":","8","}">>>>,
            TRUE, <<NoTag(<<<<"N","a","m","e">>>>, Ident(<<"s","t","r","i","n","g">>))>>),
          TypeSpec(<<"D","r","a","f","t">>, <<<<"/","/"," ","D","r","a","f","t"," ","i","s"," ","u","n","s","a","v","e","d">>>>, TRUE,
            <<NoTag(<<<<"T","i","t","l","e">>>>, Ident(<<"s","t","r","i","n","g">>))>>),
          TypeSpec(<<"I","D">>, <<<<"/","/"," ","+","w","e","a","v","e">>>>, FALSE, <<>>)>>)

\* // +weave
\* type Bad struct { Title string; Cb func() }
DeclBad ==
    GenDecl("type", <<<<"/","/"," ","+","w","e","a","v","e">>>>,
        <<TypeSpec(<<"B","a","d">>, <<>>, TRUE,
            <<NoTag(<<<<"T","i","t","l","e">>>>, Ident(<<"s","t","r","i","n","g">>)),
              NoTag(<<<<"C","b">>>>, Shape("FuncType"))>>)>>)

\* // +weave
\* type Multi struct { done, Events chan int }
DeclMulti ==
    GenDecl("type", <<<<"/","/"," ","+","w","e","a","v","e">>>>,
        <<TypeSpec(<<"M","u","l","t","i">>, <<>>, TRUE,
            <<NoTag(<<<<"d","o","n","e">>, <<"E","v","e","n","t","s">>>>, Shape("ChanType"))>>)>>)

\* func init() {}
DeclFunc == GenDecl("func", <<>>, <<>>)

\* type (
\*     // +weave:desc: Notes
\*     Note struct { Text string }
\*     // +weave:config: vectorizer=none
\*     Setting struct { Key string }
\* )
DeclNotes ==
    GenDecl("type", <<>>,
        <<TypeSpec(<<"N","o","t","e">>, <<<<"/","/"," ","+","w","e","a","v","e",":","d","e","s","c",":"," ","N","o","t","e","s">>>>, TRUE,
            <<NoTag(<<<<"T","e","x","t">>>>, Ident(<<"s","t","r","i","n","g">>))>>),
          TypeSpec(<<"S","e","t","t","i","n","g">>, <<<<"/","/"," ","+","w","e","a","v","e",":","c","o","n","f","i","g",":"," ","v","e","c","t","o","r","i","z","e","r","=","n","o","n","e">>>>, TRUE,
            <<NoTag(<<<<"K","e","y">>>>, Ident(<<"s","t","r","i","n","g">>))>>)>>)

DeclPool == {DeclPlain, DeclArticle, DeclGroup, DeclBad, DeclMulti, DeclFunc,
             DeclNotes}

\* the names of the Go files a directory can hold, not in sorted order
NamePool == <<<<"b",".","g","o">>, <<"a",".","g","o">>, <<"a","b",".","g","o">>, <<"c",".","g","o">>>>

GoFile(decls) == [parses |-> TRUE, Name |-> <<"m","o","d","e","l">>, Decls |-> decls]
\* a file the parser rejects
Unparsable == [parses |-> FALSE, Name |-> <<>>, Decls |-> <<>>]

\* the entries of the directories that hold some of the first i names of
\* NamePool with at most budget declarations in all
RECURSIVE DirEntries(_, _)
DirEntries(i, budget) ==
    IF i = 0 THEN {EmptyMap}
    ELSE DirEntries(i - 1, budget)
         \cup {MapSet(e, NamePool[i], Unparsable) : e \in DirEntries(i - 1, budget)}
         \cup UNION {{MapSet(e, NamePool[i], GoFile(body)) :
                        e \in DirEntries(i - 1, budget - k),
                        body \in [1..k -> DeclPool]} : k \in 0..budget}

\* every readable directory also holds a file that is no Go file
Dirs ==
    {[status |-> "ok", path |-> <<"s","r","c">>,
      entries |-> MapSet(e, <<"n",".","t","x","t">>, Unparsable)] : e \in DirEntries(MaxFiles, MaxDecls)}
    \cup {[status |-> st, path |-> <<"s","r","c">>, entries |-> EmptyMap] :
            st \in {"unreadable", "badpattern"}}

----------------------------------------------------------------------------
(* Specifications *)

NotCalled == [called |-> FALSE, err |-> FALSE, types |-> <<>>]

IdleRun ==
    /\ dir = [status |-> "ok", path |-> <<>>, entries |-> EmptyMap]
    /\ pc = "idle"
    /\ files = <<>> /\ fi = 1 /\ di = 1 /\ si = 1
    /\ building = NoClass /\ classCfg = EmptyMap /\ todo = {}
    /\ schema = <<>> /\ results = <<>>
StructNotCalled ==
    [called |-> FALSE, err |-> FALSE, errKind |-> "none", errField |-> <<>>,
     errDecl |-> 0, class |-> NoClass, origin |-> <<>>]
ConfigNotCalled == [called |-> FALSE, config |-> EmptyMap]

IdleStruct == structArg = [Fields |-> <<>>] /\ structRet = StructNotCalled
IdleConfig == cgParts = <<>> /\ cgArg = <<>> /\ cgRet = ConfigNotCalled
IdleMapper == exprArg = Shape("BadExpr") /\ exprRet = NotCalled

\* GenerateWeaviateSchema, called twice on one directory
Init ==
    /\ dir \in Dirs
    /\ pc = "start"
    /\ files = <<>> /\ fi = 1 /\ di = 1 /\ si = 1
    /\ building = NoClass /\ classCfg = EmptyMap /\ todo = {}
    /\ schema = <<>> /\ results = <<>>
    /\ IdleStruct /\ IdleConfig /\ IdleMapper

Next ==
    \/ GlobFiles /\ UNCHANGED <<structVars, configVars, mapperVars>>
    \/ GlobFails /\ UNCHANGED <<structVars, configVars, mapperVars>>
    \/ ParseFile /\ UNCHANGED <<structVars, configVars, mapperVars>>
    \/ ParseFileFails /\ UNCHANGED <<structVars, configVars, mapperVars>>
    \/ SkipDecl /\ UNCHANGED <<structVars, configVars, mapperVars>>
    \/ NextDecl /\ UNCHANGED <<structVars, configVars, mapperVars>>
    \/ SkipTypeSpec /\ UNCHANGED <<structVars, configVars, mapperVars>>
    \/ BuildClass /\ UNCHANGED <<structVars, configVars, mapperVars>>
    \/ BuildClassFails /\ UNCHANGED <<structVars, configVars, mapperVars>>
    \/ ApplyClassConfig /\ UNCHANGED <<structVars, configVars, mapperVars>>
    \/ AppendClass /\ UNCHANGED <<structVars, configVars, mapperVars>>
    \/ NextFile /\ UNCHANGED <<structVars, configVars, mapperVars>>
    \/ ReturnSchema /\ UNCHANGED <<structVars, configVars, mapperVars>>
    \/ RunAgain /\ UNCHANGED <<structVars, configVars, mapperVars>>

Spec == Init /\ [][Next]_vars

\* processStruct, called once on one struct type
TagDash       == <<BackQuote,"j","s","o","n",":","\"","-","\"",BackQuote>>
TagName       == <<BackQuote,"j","s","o","n",":","\"","n","a","m","e",",","o","m","i","t","e","m","p","t","y","\"",BackQuote>>
TagBlob       == <<BackQuote,"w","e","a","v","e",":","\"","t","y","p","e","=","b","l","o","b","\"",BackQuote>>
TagDashType   == <<BackQuote,"j","s","o","n",":","\"","-","\""," ","w","e","a","v","e",":","\"","t","y","p","e","=","t","e","x","t","\"",BackQuote>>
TagTextSearch == <<BackQuote,"w","e","a","v","e",":","\"","t","y","p","e","=","t","e","x","t",",","i","n","d","e","x","S","e","a","r","c","h","a","b","l","e","=","t","r","u","e","\"",BackQuote>>
TagSearch     == <<BackQuote,"j","s","o","n",":","\"","t","a","g","s","\""," ","w","e","a","v","e",":","\"","t","a","g","s",",","i","n","d","e","x","S","e","a","r","c","h","a","b","l","e","=","t","r","u","e",",","d","e","s","c","r","i","p","t","i","o","n","=","T","a","g","s","\"",BackQuote>>

PoolTypes == {Ident(<<"s","t","r","i","n","g">>), ArrayType(Ident(<<"i","n","t">>)), Ident(<<"A","r","t","i","c","l","e">>),
              ArrayType(ArrayType(Ident(<<"s","t","r","i","n","g">>))), Shape("FuncType")}

FieldPool ==
    {NoTag(names, type) :
        names \in {<<>>, <<<<"T","i","t","l","e">>>>, <<<<"s","e","c","r","e","t">>>>, <<<<"X">>, <<"Y">>>>, <<<<"d","o","n","e">>, <<"E","v","e","n","t","s">>>>},
        type \in {Ident(<<"s","t","r","i","n","g">>), Shape("FuncType")}}
    \cup {Field(<<<<"T","i","t","l","e">>>>, type, TRUE, tag) :
            type \in PoolTypes, tag \in {TagDash, TagBlob, TagSearch}}
    \cup {Field(<<<<"T","i","t","l","e">>>>, Ident(<<"s","t","r","i","n","g">>), TRUE, tag) :
            tag \in {TagName, TagDashType, TagTextSearch}}
    \cup {NoTag(<<<<"T","i","t","l","e">>>>, type) : type \in PoolTypes}
    \cup {Field(names, Shape("FuncType"), TRUE, tag) :
            names \in {<<>>, <<<<"s","e","c","r","e","t">>>>, <<<<"d","o","n","e">>, <<"E","v","e","n","t","s">>>>},
            tag \in {TagDashType, TagBlob}}

InitStruct ==
    /\ structArg \in {[Fields |-> fs] :
                        fs \in UNION {[1..n -> FieldPool] : n \in 0..MaxFields}}
    /\ structRet = StructNotCalled
    /\ IdleRun /\ IdleConfig /\ IdleMapper

CallProcessStruct ==
    /\ ~structRet.called
    /\ LET r == processStruct(<<"m","o","d","e","l">>, <<"T">>, structArg)
       IN  structRet' = [called |-> TRUE, err |-> r.err, errKind |-> r.errKind,
                         errField |-> r.errField, errDecl |-> r.errDecl,
                         class |-> r.class, origin |-> r.origin]
    /\ UNCHANGED <<structArg, runVars, configVars, mapperVars>>

NextStruct == CallProcessStruct

SpecStruct == InitStruct /\ [][NextStruct]_vars

\* extractWeaviateClassConfig, called once on one comment group
PartPool ==
    {<<"v","e","c","t","o","r","i","z","e","r","=","n","o","n","e">>, <<"v","e","c","t","o","r","i","z","e","r","=","t","r","u","e">>, <<"v","e","c","t","o","r","i","z","e","r","=","1">>, <<"e","f","=","8">>, <<"e","f","=","1",".","5","0">>,
     <<"e","f","=","-","2">>, <<"e","f","=","0">>, <<"m","=","{","\"","a","\"",":","1","}">>, <<"m","=","{","}">>, <<"m","=","{","b","a","d","}">>, <<"m","=","{","\"","a","\"",":","}">>, <<"m","=","{","x">>,
     <<"n","o","v","a","l","u","e">>, <<>>, <<" ","k"," ","="," ","v"," ">>, <<"k","=","a","=","b">>, <<"k","=">>, <<"k","=","T">>, <<"k","=","y","e","s">>}

RECURSIVE Join(_, _)
Join(parts, sep) ==
    IF Len(parts) = 0 THEN <<>>
    ELSE IF Len(parts) = 1 THEN parts[1]
    ELSE parts[1] \o sep \o Join(Tail(parts), sep)

ConfigComment(parts) == <<"/","/"," ","+","w","e","a","v","e",":","c","o","n","f","i","g",":"," ">> \o Join(parts, <<";">>)

InitConfig ==
    /\ cgParts \in UNION {[1..n -> PartPool] : n \in 0..MaxPairs}
    /\ cgArg \in {<<ConfigComment(cgParts)>>,
                  <<<<"/","/"," ","+","w","e","a","v","e">>, ConfigComment(cgParts)>>}
    /\ cgRet = ConfigNotCalled
    /\ IdleRun /\ IdleStruct /\ IdleMapper

CallExtractClassConfig ==
    /\ ~cgRet.called
    /\ cgRet' = [called |-> TRUE, config |-> extractWeaviateClassConfig(cgArg)]
    /\ UNCHANGED <<cgParts, cgArg, runVars, structVars, mapperVars>>

NextConfig == CallExtractClassConfig

SpecConfig == InitConfig /\ [][NextConfig]_vars

\* determineWeaviateDataType, called once on one type expression
IdentPool == {<<"s","t","r","i","n","g">>, <<"i","n","t">>, <<"u","i","n","t","6","4">>, <<"f","l","o","a","t","6","4">>, <<"b","o","o","l">>, <<"b","y","t","e">>,
              <<"A","r","t","i","c","l","e">>, <<"m","y","T","y","p","e">>}

LeafExprs ==
    {Ident(n) : n \in IdentPool}
    \cup {SelectorExpr(Ident(<<"t","i","m","e">>), <<"T","i","m","e">>), SelectorExpr(Ident(<<"u","u","i","d">>), <<"U","U","I","D">>),
          SelectorExpr(Ident(<<"t","i","m","e">>), <<"D","u","r","a","t","i","o","n">>), SelectorExpr(Ident(<<"p","k","g">>), <<"T","h","i","n","g">>)}
    \cup {Shape(k) : k \in {"StructType", "MapType", "InterfaceType",
                            "FuncType", "ChanType"}}

RECURSIVE TypeExprs(_)
TypeExprs(d) ==
    IF d = 0 THEN LeafExprs
    ELSE LeafExprs \cup {ArrayType(e) : e \in TypeExprs(d - 1)}
                   \cup {StarExpr(e) : e \in TypeExprs(d - 1)}

InitMapper ==
    /\ exprArg \in TypeExprs(MaxDepth)
    /\ exprRet = NotCalled
    /\ IdleRun /\ IdleStruct /\ IdleConfig

CallMapper ==
    /\ ~exprRet.called
    /\ LET d == determineWeaviateDataType(exprArg)
       IN  exprRet' = [called |-> TRUE, err |-> d.err, types |-> d.types]
    /\ UNCHANGED <<exprArg, runVars, structVars, configVars>>

NextMapper == CallMapper

SpecMapper == InitMapper /\ [][NextMapper]_vars

----------------------------------------------------------------------------
(* What the specification says of a run of GenerateWeaviateSchema *)

\* the Go files of the directory
GoNames == {n \in DOMAIN dir.entries : HasSuffix(n, <<".","g","o">>)}

\* a comment line of the group doc or of the type-spec doc holds the marker
Marked(decl, spec) ==
    \E line \in Range(decl.Doc) \cup Range(spec.Doc) : Contains(line, <<"+","w","e","a","v","e">>)

\* the marked record declarations of a file, in declaration order
RECURSIVE MarkedSpecs(_, _)
MarkedSpecs(decl, k) ==
    IF k > Len(decl.Specs) THEN <<>>
    ELSE (IF decl.Tok = "type" /\ decl.Specs[k].IsStruct /\ Marked(decl, decl.Specs[k])
          THEN <<decl.Specs[k]>> ELSE <<>>) \o MarkedSpecs(decl, k + 1)

RECURSIVE MarkedInFile(_, _)
MarkedInFile(file, k) ==
    IF k > Len(file.Decls) THEN <<>>
    ELSE MarkedSpecs(file.Decls[k], 1) \o MarkedInFile(file, k + 1)

\* ... and of the directory, the files in lexicographic path order
RECURSIVE MarkedInFiles(_, _)
MarkedInFiles(names, k) ==
    IF k > Len(names) THEN <<>>
    ELSE MarkedInFile(dir.entries[names[k]], 1) \o MarkedInFiles(names, k + 1)

MarkedRecords == MarkedInFiles(SortStrings(GoNames), 1)

ClassNames(classes) == [k \in 1..Len(classes) |-> classes[k].Class]
RecordNames(specs) == [k \in 1..Len(specs) |-> specs[k].Name]

TagExcluded(f) == f.HasTag /\ Contains(f.Tag, <<"j","s","o","n",":","\"","-","\"">>)
TypeOverride(f) ==
    f.HasTag /\ <<"t","y","p","e">> \in DOMAIN extractWeaviateConfig(Unquote(f.Tag).val)

\* the exported, named, non-excluded field names without a type override
\* whose type shape the mapper rejects, over the marked records
UnsupportedFields ==
    UNION {{nm \in Range(f.Names) :
                /\ IsExported(nm)
                /\ ~TagExcluded(f)
                /\ ~TypeOverride(f)
                /\ determineWeaviateDataType(f.Type).err} :
           f \in UNION {Range(r.Type.Fields) : r \in Range(MarkedRecords)}}

AllParse == \A n \in GoNames : dir.entries[n].parses

\* C1: when a marked record of a file of the directory (all files parsing)
\* has an exported, named, non-excluded field without type override whose
\* type shape the mapper does not support, the run returns an error, which
\* names such a field when it is the type error, and returns no schema
C1_UnsupportedFieldFails ==
    \A k \in 1..Len(results) :
        (dir.status = "ok" /\ AllParse /\ UnsupportedFields # {}) =>
            /\ results[k].error.err
            /\ results[k].nil /\ results[k].Classes = <<>>
            /\ results[k].error.errKind = "type" =>
                    results[k].error.errField \in UnsupportedFields

\* C2: two runs on one directory return the same thing, and a schema lists
\* its classes by lexicographic file path, then by declaration order
C2_Deterministic ==
    /\ Len(results) = 2 => results[1] = results[2]
    /\ \A k \in 1..Len(results) :
          ~results[k].error.err =>
              ClassNames(results[k].Classes) = RecordNames(MarkedRecords)

\* two runs done on b.go and a.go: a.go's Author, configured by three keys,
\* comes before b.go's Article and Comment
C2_Witness ==
    /\ Len(results) = 2
    /\ ~results[2].error.err
    /\ ClassNames(results[2].Classes) = <<<<"A","u","t","h","o","r">>, <<"A","r","t","i","c","l","e">>, <<"C","o","m","m","e","n","t">>>>
    /\ DOMAIN dir.entries = {<<"a",".","g","o">>, <<"b",".","g","o">>, <<"n",".","t","x","t">>}
    /\ results[2].Classes[1].Vectorizer = <<"n","o","n","e">>
    /\ results[2].Classes[1].VectorIndexType = <<"f","l","a","t">>
    /\ ~results[2].Classes[1].VectorIndexConfig.nil

\* C3: a returned schema holds one class for each record declaration with
\* the marker in a comment line of its group doc or type-spec doc and none
\* for any other, and a directory of unmarked declarations only gives an
\* empty class list and no error
C3_MarkerDecidesInclusion ==
    \A k \in 1..Len(results) :
        /\ ~results[k].error.err =>
              /\ Len(results[k].Classes) = Len(MarkedRecords)
              /\ \A nm \in Range(ClassNames(results[k].Classes))
                          \cup Range(RecordNames(MarkedRecords)) :
                    Cardinality({c \in 1..Len(results[k].Classes) :
                                    results[k].Classes[c].Class = nm})
                    = Cardinality({c \in 1..Len(MarkedRecords) :
                                    MarkedRecords[c].Name = nm})
        /\ (dir.status = "ok" /\ AllParse /\ MarkedRecords = <<>>) =>
              results[k] = Success(<<>>)

\* Article and Comment are marked on the group doc only, after a plain
\* line; the unmarked Plain of the same file gives no class
C3_Witness ==
    /\ Len(results) >= 1
    /\ ~results[1].error.err
    /\ ClassNames(results[1].Classes) = <<<<"A","r","t","i","c","l","e">>, <<"C","o","m","m","e","n","t">>>>
    /\ \E n \in GoNames :
          /\ dir.entries[n].parses
          /\ dir.entries[n].Decls = <<DeclPlain, DeclArticle>>

\* C8: a run on a directory that cannot be read, or holding a Go file that
\* fails to parse, returns an error and no schema; the error of the
\* unreadable directory carries its path and the parse error the file's
C8_ScanFailureFails ==
    \A k \in 1..Len(results) :
        /\ dir.status = "unreadable" =>
              /\ results[k].error.err /\ results[k].nil
              /\ results[k].error.errPath = dir.path
        /\ (dir.status = "ok" /\ ~AllParse) =>
              /\ results[k].error.err /\ results[k].nil
              /\ results[k].error.errKind = "parse" =>
                    /\ results[k].error.errPath \in GoNames
                    /\ ~dir.entries[results[k].error.errPath].parses

----------------------------------------------------------------------------
(* What the specification says of processStruct *)

\* the field declaration property k was built from
FieldOf(k) == structArg.Fields[structRet.origin[k].decl]

OriginNames == [k \in 1..Len(structRet.origin) |-> structRet.origin[k].name]

\* C4: every property is built from an exported name of a named field
\* declaration whose json tag is not "-", whatever the type and the other tag
\* keys of the remaining fields are, and a type-mapping error is the error of
\* such a field
C4_ExcludedFieldsNeverEmitted ==
    structRet.called =>
        /\ Len(structRet.class.Properties) = Len(structRet.origin)
        /\ \A k \in 1..Len(structRet.origin) :
              /\ Len(FieldOf(k).Names) > 0
              /\ OriginNames[k] \in Range(FieldOf(k).Names)
              /\ IsExported(OriginNames[k])
              /\ ~TagExcluded(FieldOf(k))
        /\ (structRet.err /\ structRet.errKind = "type") =>
              /\ structRet.errField \in Range(structArg.Fields[structRet.errDecl].Names)
              /\ IsExported(structRet.errField)
              /\ ~TagExcluded(structArg.Fields[structRet.errDecl])

\* an unexported function-typed field with a type override next to a plain
\* one: one property, no error
C4_Witness ==
    /\ structRet.called /\ ~structRet.err
    /\ structArg.Fields = <<Field(<<<<"s","e","c","r","e","t">>>>, Shape("FuncType"), TRUE, TagDashType),
                            NoTag(<<<<"T","i","t","l","e">>>>, Ident(<<"s","t","r","i","n","g">>))>>
    /\ Len(structRet.class.Properties) = 1
    /\ structRet.class.Properties[1].Name = <<"t","i","t","l","e">>

\* C5: a property of a field whose tag config has the key type with value
\* v has the dataType <<v>>, and processStruct never fails on a field that
\* has the override
C5_TypeOverride ==
    structRet.called =>
        /\ \A k \in 1..Len(structRet.origin) :
              TypeOverride(FieldOf(k)) =>
                  structRet.class.Properties[k].DataType =
                      <<extractWeaviateConfig(Unquote(FieldOf(k).Tag).val)[<<"t","y","p","e">>]>>
        /\ structRet.err => ~TypeOverride(structArg.Fields[structRet.errDecl])

\* type=blob on a function-typed field
C5_Witness ==
    /\ structRet.called /\ ~structRet.err
    /\ structArg.Fields = <<Field(<<<<"T","i","t","l","e">>>>, Shape("FuncType"), TRUE, TagBlob)>>
    /\ structRet.class.Properties[1].DataType = <<<<"b","l","o","b">>>>

VocabularyBase == {<<"t","e","x","t">>, <<"i","n","t">>, <<"n","u","m","b","e","r">>, <<"b","o","o","l","e","a","n">>, <<"d","a","t","e">>, <<"u","u","i","d">>, <<"o","b","j","e","c","t">>}

ClassNameStyle(tok) ==
    /\ Len(tok) > 0
    /\ IsUpper(tok[1])
    /\ \A ch \in Range(tok) :
          ch \in Range(UpperChars) \cup Range(LowerChars) \cup Range(DigitChars) \cup {"_"}

VocabularyToken(tok) ==
    \/ tok \in VocabularyBase
    \/ \E b \in VocabularyBase : tok = b \o <<"[","]">>
    \/ ClassNameStyle(tok)

FromVocabulary(dataType) ==
    Len(dataType) > 0 /\ \A tok \in Range(dataType) : VocabularyToken(tok)

\* C9 as stated: the dataType of every property of a class processStruct
\* returns is a non-empty sequence of vocabulary tokens, type overrides
\* included
C9_VocabularyAlways ==
    (structRet.called /\ ~structRet.err) =>
        \A k \in 1..Len(structRet.class.Properties) :
            FromVocabulary(structRet.class.Properties[k].DataType)

\* C9: the dataType of every property of a field without type override is a
\* non-empty sequence of vocabulary tokens
C9_VocabularyWithoutOverride ==
    (structRet.called /\ ~structRet.err) =>
        \A k \in 1..Len(structRet.origin) :
            ~TypeOverride(FieldOf(k)) =>
                FromVocabulary(structRet.class.Properties[k].DataType)

\* a slice of slices of strings, and a class reference
C9_Witness ==
    /\ structRet.called /\ ~structRet.err
    /\ structArg.Fields = <<NoTag(<<<<"T","i","t","l","e">>>>, ArrayType(ArrayType(Ident(<<"s","t","r","i","n","g">>)))),
                            Field(<<<<"T","i","t","l","e">>>>, Ident(<<"A","r","t","i","c","l","e">>), TRUE, TagSearch)>>
    /\ structRet.class.Properties[1].DataType = <<<<"o","b","j","e","c","t","[","]">>>>
    /\ structRet.class.Properties[2].DataType = <<<<"A","r","t","i","c","l","e">>>>

\* the declared names that are exported and not tag-excluded, in order
RECURSIVE EligibleNames(_, _)
EligibleNames(fields, k) ==
    IF k > Len(fields) THEN <<>>
    ELSE (IF TagExcluded(fields[k]) THEN <<>>
          ELSE SelectSeq(fields[k].Names, IsExported))
         \o EligibleNames(fields, k + 1)

\* C10: on success the properties are, one for one and in order, those of
\* the declared names that are exported and not tag-excluded, each name of
\* a declaration of several names included
C10_OneToOne ==
    (structRet.called /\ ~structRet.err) =>
        /\ Len(structRet.class.Properties) = Len(structRet.origin)
        /\ OriginNames = EligibleNames(structArg.Fields, 1)

----------------------------------------------------------------------------
(* What the specification says of determineWeaviateDataType *)

\* C6: when the mapper succeeds on X with map(X), it gives for an array of
\* X the one token map(X)[0] + "[]" if map(X) is one native-compatible
\* token, map(X)[0] if map(X) is one exported-style identifier, "object[]"
\* otherwise; it fails on the array exactly when it fails on X
C6_ArrayRule ==
    (exprRet.called /\ exprArg.kind = "ArrayType") =>
        LET mapX == determineWeaviateDataType(exprArg.Sub[1])
        IN  /\ exprRet.err = mapX.err
            /\ ~mapX.err =>
                  exprRet.types =
                      IF Len(mapX.types) = 1 /\ mapX.types[1] \in VocabularyBase
                      THEN <<mapX.types[1] \o <<"[","]">>>>
                      ELSE IF Len(mapX.types) = 1 /\ IsUpper(mapX.types[1][1])
                      THEN <<mapX.types[1]>>
                      ELSE <<<<"o","b","j","e","c","t","[","]">>>>

\* a slice of slices of strings
C6_Witness ==
    /\ exprRet.called /\ ~exprRet.err
    /\ exprArg = ArrayType(ArrayType(Ident(<<"s","t","r","i","n","g">>)))
    /\ exprRet.types = <<<<"o","b","j","e","c","t","[","]">>>>

----------------------------------------------------------------------------
(* What the specification says of extractWeaviateClassConfig *)

WellFormed(part) == Contains(part, <<"=">>)
PairKey(part) == TrimSpace(SplitN2(part, <<"=">>)[1])
PairValue(part) == TrimSpace(SplitN2(part, <<"=">>)[2])

\* boolean literal, else numeric literal, else {...} as JSON object (raw
\* when it does not parse), else raw
CoercedInOrder(value) ==
    IF ~ParseBool(value).err THEN BoolVal(ParseBool(value).val)
    ELSE IF ~ParseFloat(value).err THEN NumVal(ParseFloat(value).val)
    ELSE IF HasPrefix(value, <<"{">>) /\ HasSuffix(value, <<"}">>)
         THEN (IF ~Unmarshal(value).err THEN ObjVal(Unmarshal(value).val)
               ELSE StrVal(value))
    ELSE StrVal(value)

\* C7: the config holds the keys of the parts with an = and no other, each
\* with the value of its last such part coerced in the fixed order; a part
\* without = adds nothing and changes nothing
C7_CoercionOrder ==
    cgRet.called =>
        LET pairs == {k \in 1..Len(cgParts) : WellFormed(cgParts[k])}
        IN  /\ DOMAIN cgRet.config = {PairKey(cgParts[k]) : k \in pairs}
            /\ \A k \in pairs :
                  (\A j \in pairs : j > k => PairKey(cgParts[j]) # PairKey(cgParts[k])) =>
                      cgRet.config[PairKey(cgParts[k])] =
                          CoercedInOrder(PairValue(cgParts[k]))

\* a part without = before a braced value that is no JSON
C7_Witness ==
    /\ cgRet.called
    /\ cgParts = <<<<"n","o","v","a","l","u","e">>, <<"m","=","{","b","a","d","}">>>>
    /\ cgRet.config = MapSet(EmptyMap, <<"m">>, StrVal(<<"{","b","a","d","}">>))

----------------------------------------------------------------------------
(* What the description and config markers do to inclusion *)

DescOrConfigLine(line) ==
    Contains(line, <<"+","w","e","a","v","e",":","d","e","s","c",":">>) \/ Contains(line, <<"+","w","e","a","v","e",":","c","o","n","f","i","g",":">>)

\* the docs of the record carry a description or config line, and the
\* inclusion marker nowhere but inside such a line
OnlyDescOrConfig(decl, spec) ==
    /\ decl.Tok = "type" /\ spec.IsStruct
    /\ \E line \in Range(decl.Doc) \cup Range(spec.Doc) : DescOrConfigLine(line)
    /\ \A line \in Range(decl.Doc) \cup Range(spec.Doc) :
          Contains(line, <<"+","w","e","a","v","e">>) => DescOrConfigLine(line)

\* the config applied key by key, in some order
RECURSIVE Configured(_, _, _)
Configured(class, config, keys) ==
    IF keys = {} THEN class
    ELSE LET key == CHOOSE x \in keys : TRUE
         IN  Configured(applyConfigKey(class, key, config[key]), config,
                        keys \ {key})

\* the class of a record that bears the inclusion marker: its struct
\* processed, its description set, its config applied
ClassAsMarked(file, decl, spec) ==
    LET built == processStruct(file.Name, spec.Name, spec.Type).class
        description == classDescription(decl, spec)
        config == classConfig(decl, spec)
    IN  Configured(IF description # <<>>
                   THEN [built EXCEPT !.Description = description]
                   ELSE built,
                   config, DOMAIN config)

\* C11: a record whose docs carry only a description or config line, and no
\* bare inclusion marker, has in every returned schema the class it would
\* have with the marker, description and config attached
C11_DescOrConfigIncludes ==
    \A k \in 1..Len(results) :
        ~results[k].error.err =>
            \A n \in GoNames :
                \A decl \in Range(dir.entries[n].Decls) :
                    \A spec \in Range(decl.Specs) :
                        OnlyDescOrConfig(decl, spec) =>
                            ClassAsMarked(dir.entries[n], decl, spec)
                                \in Range(results[k].Classes)

\* Note, with a description line only, and Setting, with a config line
\* only, after the marked Author of a.go
C11_Witness ==
    /\ Len(results) >= 1
    /\ ~results[1].error.err
    /\ ClassNames(results[1].Classes) = <<<<"A","u","t","h","o","r">>, <<"N","o","t","e">>, <<"S","e","t","t","i","n","g">>>>
    /\ results[1].Classes[2].Description = <<"N","o","t","e","s">>
    /\ results[1].Classes[3].Vectorizer = <<"n","o","n","e">>

====
